---- MODULE Spec2Model ----
(***************************************************************************)
(* Model of the XKR Discord Encrypter content script (inject.js) and of    *)
(* the popup script that stores the secrets.                               *)
(*                                                                         *)
(* Strings are sequences of one-character strings.  The bundled CryptoJS   *)
(* cipher keeps its structure (OpenSSL "Salted__" header, EvpKDF, CBC      *)
(* chaining, Pkcs7 pad and unchecked unpad, Base64 transport, Utf8         *)
(* stringify that throws on malformed data) on a reduced unit: one cipher  *)
(* unit is one Base64 character (6 bits), a block is BlockSize units, and  *)
(* AES is replaced by a keyed affine permutation of the units.             *)
(***************************************************************************)
EXTENDS Integers, Sequences, FiniteSets, TLC

VARIABLES
    \* ---- host page (DOM), owned by the page, read and written by inject.js
    encryptedmessages,  \* the live collection of elements of class markup-2BOw-j
    className,          \* className of each message container (4th ancestor)
    title,              \* elements of class title-29uC1r: <<>> or <<innerText>>
    href,               \* window.location.href
    textareaarray,      \* value of every <textarea>, in document order
    allemojis,          \* the <img> elements: aria-label and outerHTML
    \* ---- chrome.storage.local
    storage,            \* secrets: function from the stored keys to their value
    emojidata,          \* the value stored under "emojidata"
    \* ---- globals of inject.js
    passphrase, replacementarr, send, lastKeyWasStopKey, counter,
    pending,            \* storage reads issued by setPassphrase, not yet answered
    \* ---- globals of the popup script
    serverurl, channelurl, info,
    fields,             \* the values of the inputs "server-key" and "channel-key"
    tabsQuery,          \* TRUE while the chrome.tabs.query of loadKeys is unanswered
    \* ---- observations (no program state): the last decrypt pass, the
    \* last keydown, the derivations made and the last click in the popup
    lastPass, lastKey, derivations, lastClick,
    \* ---- inputs and result of the codec functions (pure-function checks)
    cin, cout

pageVars   == <<encryptedmessages, className, title, href, textareaarray, allemojis>>
storeVars  == <<storage, emojidata>>
scriptVars == <<passphrase, replacementarr, send, lastKeyWasStopKey, counter, pending>>
popupVars  == <<serverurl, channelurl, info, fields, tabsQuery>>
codecVars  == <<cin, cout>>
obsVars    == <<lastPass, lastKey, derivations, lastClick>>
vars == <<pageVars, storeVars, scriptVars, popupVars, obsVars, codecVars>>

---------------------------------------------------------------------------
(* Strings *)

Min(S) == CHOOSE x \in S : \A y \in S : x <= y

Range(s) == {s[i] : i \in 1..Len(s)}

\* String.prototype.indexOf, 1-based; 0 when absent
IndexOf(s, pat) ==
    LET hits == {i \in 1..(Len(s) - Len(pat) + 1) : SubSeq(s, i, i + Len(pat) - 1) = pat}
    IN  IF hits = {} THEN 0 ELSE Min(hits)

\* String.prototype.includes
Includes(s, pat) == IndexOf(s, pat) # 0

\* String.prototype.replace with a string pattern: the first occurrence only
ReplaceFirst(s, pat, rep) ==
    LET i == IndexOf(s, pat)
    IN  IF i = 0 THEN s
        ELSE SubSeq(s, 1, i - 1) \o rep \o SubSeq(s, i + Len(pat), Len(s))

\* String.prototype.split with a non-empty string separator
RECURSIVE Split(_, _)
Split(s, sep) ==
    LET i == IndexOf(s, sep)
    IN  IF i = 0 THEN <<s>>
        ELSE <<SubSeq(s, 1, i - 1)>> \o Split(SubSeq(s, i + Len(sep), Len(s)), sep)

\* String.prototype.substring(from) and substring(0, to), 0-based as in JS;
\* a negative bound counts as 0
SubstringFrom(s, from) == SubSeq(s, from + 1, Len(s))
SubstringTo(s, to) == IF to <= 0 THEN <<>> ELSE SubSeq(s, 1, to)

PosOf(tbl, c) == IF c \in Range(tbl) THEN Min({i \in 1..Len(tbl) : tbl[i] = c}) ELSE 0

---------------------------------------------------------------------------
(* CryptoJS: encodings *)

\* enc.Base64._map without its padding character "="
Base64map ==
    <<"A","B","C","D","E","F","G","H","I","J","K","L","M","N","O","P","Q","R","S",
      "T","U","V","W","X","Y","Z","a","b","c","d","e","f","g","h","i","j","k","l",
      "m","n","o","p","q","r","s","t","u","v","w","x","y","z","0","1","2","3","4",
      "5","6","7","8","9","+","/">>

UnitMod == Len(Base64map)
Unit == 0..(UnitMod - 1)

\* characters whose Utf8 encoding is one unit (the ASCII range)
Single ==
    <<"a","b","c","d","e","f","g","h","i","j","k","l","m","n","o","p","q","r","s",
      "t","u","v","w","x","y","z","0","1","2","3","4","5","6","7","8","9"," ",":",
      "/",".">>

\* characters whose Utf8 encoding is a lead unit followed by a continuation unit
Double ==
    <<"§","A","B","C","D","E","F","G","H","I","J","K","L","M","N","O","P","Q","R",
      "S","T","U","V","W","X","Y","Z","?","=","<",">","\"","'","[","]",",","-","_",
      "&",";","%","#","!","(",")","+","*","@","\n">>

\* any other character the decoder can produce from a well-formed pair
OtherChar == "~"

NSingle == Len(Single)
ContBase == NSingle                 \* continuation units: ContBase .. LeadBase-1
LeadBase == NSingle + 8             \* lead units: LeadBase .. UnitMod-1
IsCont(u) == ContBase <= u /\ u < LeadBase
IsLead(u) == LeadBase <= u

\* enc.Utf8.parse of one character
Utf8encoded(c) ==
    IF PosOf(Single, c) # 0 THEN <<PosOf(Single, c) - 1>>
    ELSE LET d == IF PosOf(Double, c) # 0 THEN PosOf(Double, c) - 1 ELSE Len(Double)
         IN  <<LeadBase + (d \div 8), ContBase + (d % 8)>>

\* the same, looked up in a table of the characters of the two lists
Utf8table == [c \in Range(Single) \cup Range(Double) |-> Utf8encoded(c)]
Utf8char(c) == IF c \in DOMAIN Utf8table THEN Utf8table[c] ELSE Utf8encoded(OtherChar)

\* enc.Utf8.parse: the encodings of the characters, in order (the text is
\* halved so that the evaluation nests no deeper than its logarithm)
RECURSIVE Utf8parse(_)
Utf8parse(str) ==
    IF str = <<>> THEN <<>>
    ELSE IF Len(str) = 1 THEN Utf8char(str[1])
    ELSE LET half == Len(str) \div 2
         IN  Utf8parse(SubSeq(str, 1, half)) \o Utf8parse(SubSeq(str, half + 1, Len(str)))

\* the character a unit, or a lead unit and its continuation unit, decodes to
Utf8decoded(units, i) ==
    IF units[i] < ContBase THEN Single[units[i] + 1]
    ELSE LET d == (units[i] - LeadBase) * 8 + (units[i + 1] - ContBase)
         IN  IF d < Len(Double) THEN Double[d + 1] ELSE OtherChar

\* the characters that start at the units lo..hi, in order
RECURSIVE Utf8chars(_, _, _)
Utf8chars(units, lo, hi) ==
    IF lo > hi THEN <<>>
    ELSE IF lo = hi
    THEN (IF IsCont(units[lo]) THEN <<>> ELSE <<Utf8decoded(units, lo)>>)
    ELSE Utf8chars(units, lo, (lo + hi) \div 2) \o Utf8chars(units, (lo + hi) \div 2 + 1, hi)

\* enc.Utf8.stringify: [malformed |-> TRUE] stands for the thrown
\* Error('Malformed UTF-8 data'): a lead unit that no continuation unit
\* follows, or a continuation unit that follows no lead unit
Utf8stringify(units) ==
    LET n == Len(units)
        bad == \E i \in 1..n :
                  \/ IsLead(units[i]) /\ (i = n \/ ~IsCont(units[i + 1]))
                  \/ IsCont(units[i]) /\ (i = 1 \/ ~IsLead(units[i - 1]))
    IN  IF bad THEN [malformed |-> TRUE, text |-> <<>>]
        ELSE [malformed |-> FALSE, text |-> Utf8chars(units, 1, n)]

\* enc.Base64.stringify (one character per unit)
Base64stringify(units) == [i \in 1..Len(units) |-> Base64map[units[i] + 1]]

\* _map.indexOf(char), for the characters of the map
Base64index == [c \in Range(Base64map) |-> PosOf(Base64map, c) - 1]

\* enc.Base64.parse: the text is cut at the first "="; a character that is
\* not in the map has indexOf -1, which decodes as all one bits
Base64parse(str) ==
    LET cut == IndexOf(str, <<"=">>)
        body == IF cut = 0 THEN str ELSE SubSeq(str, 1, cut - 1)
    IN  [i \in 1..Len(body) |->
            IF body[i] \in DOMAIN Base64index THEN Base64index[body[i]]
            ELSE UnitMod - 1]

---------------------------------------------------------------------------
(* CryptoJS: password based cipher *)

\* BlockCipher.blockSize
BlockSize == 4

\* format.OpenSSL: the "Salted__" magic that precedes the salt
Magic == <<PosOf(Base64map, "U") - 1>>

\* the digest of the kdf: h <- (h * 31 + unit + 1) mod DigestMod over the
\* units in order.  Folded(units) is that map for a run of units, as the
\* pair [p, v] with h <- (h * p + v) mod DigestMod; two runs compose.
DigestMod == UnitMod * 32 * 16

RECURSIVE Folded(_)
Folded(units) ==
    IF units = <<>> THEN [p |-> 1, v |-> 0]
    ELSE IF Len(units) = 1 THEN [p |-> 31, v |-> units[1] + 1]
    ELSE LET half == Len(units) \div 2
             l == Folded(SubSeq(units, 1, half))
             r == Folded(SubSeq(units, half + 1, Len(units)))
         IN  [p |-> (l.p * r.p) % DigestMod, v |-> (l.v * r.p + r.v) % DigestMod]

Digest(h, units) ==
    LET f == Folded(units) IN (h * f.p + f.v) % DigestMod

\* kdf.OpenSSL.execute / EvpKDF: key material from the password and the salt
EvpKDF(password, salt) ==
    LET h == Digest(7, Utf8parse(password) \o salt)
    IN  [a  |-> 2 * (h % 32) + 1,
         b  |-> (h \div 32) % UnitMod,
         iv |-> (h \div (32 * UnitMod)) % 16]

\* the block permutation and its inverse
encryptBlock(key, x) == (key.a * x + key.b) % UnitMod
decryptBlock(key, y) ==
    LET ainv == CHOOSE i \in Unit : (key.a * i) % UnitMod = 1
    IN  (ainv * ((y - key.b + UnitMod) % UnitMod)) % UnitMod

\* mode.CBC.Encryptor: unit j is chained to the unit one block before it,
\* c[j] = encryptBlock(data[j] + c[j - BlockSize]), and the first block to the
\* iv.  CBCchain is the map prev |-> (p * prev + v) mod UnitMod that the
\* units first, first + BlockSize, .. of blocks lo..hi apply to what precedes
\* them; two runs of blocks compose, so that the evaluation nests no deeper
\* than the logarithm of the number of blocks.
RECURSIVE CBCchain(_, _, _, _, _)
CBCchain(key, data, first, lo, hi) ==
    IF lo = hi
    THEN [p |-> key.a, v |-> encryptBlock(key, data[first + (BlockSize * (lo - 1))])]
    ELSE LET l == CBCchain(key, data, first, lo, (lo + hi) \div 2)
             r == CBCchain(key, data, first, ((lo + hi) \div 2) + 1, hi)
         IN  [p |-> (l.p * r.p) % UnitMod, v |-> ((r.p * l.v) + r.v) % UnitMod]

CBCunit(key, data, j) ==
    LET m == CBCchain(key, data, ((j - 1) % BlockSize) + 1, 1, ((j - 1) \div BlockSize) + 1)
    IN  (m.p * key.iv + m.v) % UnitMod

CBCencrypt(key, data) == [j \in 1..Len(data) |-> CBCunit(key, data, j)]

\* mode.CBC.Decryptor
CBCdecrypt(key, ct) ==
    [j \in 1..Len(ct) |->
        LET prev == IF j <= BlockSize THEN key.iv ELSE ct[j - BlockSize]
        IN  (decryptBlock(key, ct[j]) - prev + UnitMod) % UnitMod]

\* pad.Pkcs7.pad
Pkcs7pad(data) ==
    LET n == BlockSize - (Len(data) % BlockSize)
    IN  data \o [i \in 1..n |-> n]

\* pad.Pkcs7.unpad: sigBytes -= last unit, with no check of the padding; a
\* sigBytes <= 0 stringifies as the empty string
Pkcs7unpad(data) ==
    LET n == IF data = <<>> THEN 0 ELSE data[Len(data)]
    IN  SubstringTo(data, Len(data) - n)

\* CryptoJS.AES.encrypt(message, password) + "" : the OpenSSL transport string
\* under the random salt the kdf drew
AESencrypt(message, password, salt) ==
    LET key == EvpKDF(password, <<salt>>)
    IN  Base64stringify(Magic \o <<salt>> \o CBCencrypt(key, Pkcs7pad(Utf8parse(message))))

\* CryptoJS.AES.decrypt(ciphertext, password): the decrypted units.  A text
\* without the magic has no salt and the kdf draws a random one (rnd)
AESdecrypt(ciphertext, password, rnd) ==
    LET units  == Base64parse(ciphertext)
        salted == units # <<>> /\ units[1] = Magic[1]
        salt   == IF ~salted THEN <<rnd>>
                  ELSE IF Len(units) >= 2 THEN <<units[2]>> ELSE <<>>
        body   == IF salted THEN SubSeq(units, 3, Len(units)) ELSE units
    IN  Pkcs7unpad(CBCdecrypt(EvpKDF(password, salt), body))

---------------------------------------------------------------------------
(* inject.js: the content classifier inside decryptMessages *)

stopkey == "§"

fallbackText ==
    <<"[","c","o","u","l","d"," ","n","o","t"," ","b","e"," ","d","e","c","r","y",
      "p","t","e","d","]">>

https == <<"h","t","t","p","s">>
httpsScheme == <<"h","t","t","p","s",":","/","/">>
undefinedText == <<"u","n","d","e","f","i","n","e","d">>
frameStyle ==
    <<"\""," ","s","t","y","l","e","=","\"","w","i","d","t","h",":"," ","9","9","%",
      ";"," ","m","a","x","-","w","i","d","t","h",":","7","0","0","p","x",";"," ",
      "h","e","i","g","h","t",":","4","0","0","p","x",";","\"",">">>
breaks == <<"<","/","a",">","<","b","r","/",">","<","b","r","/",">">>

\* line 554
youtubeMarkup(decryptedWord, watchcode) ==
    <<"<","a"," "," ","h","r","e","f","=","\"">> \o decryptedWord \o <<"\"",">">>
    \o decryptedWord \o breaks
    \o <<"<","i","f","r","a","m","e"," ","s","r","c","=","\"","h","t","t","p","s",":",
         "/","/","w","w","w",".","y","o","u","t","u","b","e",".","c","o","m","/","e",
         "m","b","e","d","/">>
    \o watchcode \o frameStyle

\* line 557
bitchuteMarkup(decryptedWord, watchcode) ==
    <<"<","a"," ","h","r","e","f","=","\"">> \o decryptedWord \o <<"\"",">">>
    \o decryptedWord \o breaks
    \o <<"<","i","f","r","a","m","e"," ","s","r","c","=","\"","h","t","t","p","s",":",
         "/","/","w","w","w",".","b","i","t","c","h","u","t","e",".","c","o","m","/",
         "e","m","b","e","d","/">>
    \o watchcode \o frameStyle

\* line 560
imageMarkup(decryptedWord) ==
    <<"<","a"," ","h","r","e","f","=","\"">> \o decryptedWord \o <<"\"",">">>
    \o decryptedWord \o breaks
    \o <<"<","i","m","g"," ","a","l","t","=","\"","\""," ","s","r","c","=","\"">>
    \o decryptedWord
    \o <<"\""," ","s","t","y","l","e","=","\"","m","a","x","-","h","e","i","g","h","t",
         ":"," ","6","0","0","p","x",";"," ","m","a","x","-","w","i","d","t","h",":",
         " ","6","0","0","p","x",";","\"",">">>

\* x.split(sep)[1], which is undefined when sep does not occur
SecondPiece(x, sep) ==
    LET parts == Split(x, sep) IN IF Len(parts) >= 2 THEN parts[2] ELSE undefinedText

\* lines 551-561: one word of the decrypted text
renderWord(decryptedWord) ==
    IF Includes(decryptedWord, <<"y","o","u","t","u","b","e",".","c","o","m","/","w","a","t","c","h">>)
    THEN youtubeMarkup(decryptedWord, SecondPiece(decryptedWord, <<"?","v","=">>))
    ELSE IF Includes(decryptedWord, <<"b","i","t","c","h","u","t","e",".","c","o","m","/","v","i","d","e","o","/">>)
    THEN bitchuteMarkup(decryptedWord, SecondPiece(decryptedWord, <<".","c","o","m","/","v","i","d","e","o","/">>))
    ELSE IF Includes(decryptedWord, https) THEN imageMarkup(decryptedWord)
    ELSE decryptedWord

\* lines 549-564: decrypted += " " + decryptedWord, for every word
RECURSIVE renderWords(_)
renderWords(decryptedWords) ==
    IF decryptedWords = <<>> THEN <<>>
    ELSE <<" ">> \o renderWord(Head(decryptedWords)) \o renderWords(Tail(decryptedWords))

\* a faulty detection, for the sensitivity of C15: every text is taken apart
\* into words and put together again
renderLinksAlways(decrypted) == renderWords(Split(decrypted, <<" ">>))

\* lines 544-566: URL detection
renderLinks(decrypted) ==
    IF Includes(decrypted, https)
    THEN LET d1 == ReplaceFirst(decrypted, httpsScheme, <<" ">> \o httpsScheme)
             d2 == ReplaceFirst(d1, <<"="," ">> \o httpsScheme, <<"=">> \o httpsScheme)
         IN  renderWords(Split(d2, <<" ">>))
    ELSE decrypted

\* lines 568-570: for (var key in replacementarr), in insertion order
RECURSIVE replaceEmojis(_, _)
replaceEmojis(decrypted, emojis) ==
    IF emojis = <<>> THEN decrypted
    ELSE replaceEmojis(ReplaceFirst(decrypted, Head(emojis).code, Head(emojis).markup),
                       Tail(emojis))

\* lines 567-571: emoji substitution
renderEmojis(decrypted, emojis) ==
    IF Len(Split(decrypted, <<":">>)) > 1 THEN replaceEmojis(decrypted, emojis)
    ELSE decrypted

\* line 583: decrypted.replace(/<\/?[^>]+(>|$)/g, ""): a match starts at a "<"
\* that is followed by a character other than ">" and runs up to and
\* including the next ">" (or to the end of the text).  The character at
\* position i is removed when such a "<" precedes it with no ">" in between.
inTag(s, i) ==
    \E q \in 1..i :
        /\ s[q] = "<" /\ q < Len(s) /\ s[q + 1] # ">"
        /\ \A j \in (q + 1)..(i - 1) : s[j] # ">"

\* cleanText.length (lines 585 and 590)
cleanTextLength(decrypted) ==
    Cardinality({i \in 1..Len(decrypted) : ~inTag(decrypted, i)})

wideLimit == 80
evenWiderLimit == 200

\* faulty limits, for the sensitivity of C14: a text of exactly the limit is
\* taken for a wide one
containerHintsFrom(decrypted, containsImage) ==
    LET length == cleanTextLength(decrypted)
    IN  <<"encryptedMessageContainer">>
        \o (IF containsImage THEN <<"containsImage">> ELSE <<>>)
        \o (IF length >= wideLimit THEN <<"widermessage">> ELSE <<>>)
        \o (IF length >= evenWiderLimit THEN <<"evenwidermessage">> ELSE <<>>)

\* lines 579-592: the class names appended to the container, in order
containerHints(decrypted, containsImage) ==
    LET length == cleanTextLength(decrypted)
    IN  <<"encryptedMessageContainer">>
        \o (IF containsImage THEN <<"containsImage">> ELSE <<>>)
        \o (IF length > wideLimit THEN <<"widermessage">> ELSE <<>>)
        \o (IF length > evenWiderLimit THEN <<"evenwidermessage">> ELSE <<>>)

---------------------------------------------------------------------------
(* inject.js: decryptMessages *)

\* a faulty strip, for the sensitivity of C2: only the first character is cut
strippedFirst(encrypted) == SubstringFrom(encrypted, 1)

\* lines 532-533: the first and the last character are cut off
stripped(encrypted) == SubstringTo(SubstringFrom(encrypted, 1), Len(encrypted) - 2)

\* a faulty test, for the sensitivity of C4: no decoded text counts as empty
neverEmpty(decrypted) == FALSE

\* line 539: a decoded text of length zero counts as a failure
isEmptyResult(decrypted) == Len(decrypted) < 1

\* lines 530-601 for one element; parent4 = 0 when the element has no fourth
\* ancestor, so that line 577 (or 579) throws a TypeError into the catch.
\* The result holds the element and the class names its container receives.
decryptNode(node, key, rnd, emojis) ==
    LET encrypted == node.innerHTML
        kept == [node |-> node, hints |-> <<>>, outcome |-> "skipped"]
        failed(n, how) == [node |-> [n EXCEPT !.innerHTML = fallbackText],
                           hints |-> <<>>, outcome |-> how]
    IN  IF encrypted = <<>> \/ encrypted[1] # stopkey THEN kept
        ELSE
        LET utf8 == Utf8stringify(AESdecrypt(stripped(encrypted), key, rnd))
        IN  IF utf8.malformed THEN failed(node, "threw")
            ELSE IF isEmptyResult(utf8.text) THEN failed(node, "empty")
            ELSE
            LET containsImage == Includes(utf8.text, https)
                decrypted == renderEmojis(renderLinks(utf8.text), emojis)
                shown == [node EXCEPT !.innerHTML = decrypted, !.color = "#fff"]
            IN  IF node.parent4 = 0 THEN failed(shown, "threw")
                ELSE [node |-> shown,
                      hints |-> containerHints(decrypted, containsImage),
                      outcome |-> "rendered"]

\* lines 573-592 and 597-600: what the result r of element i does to the page
applied(dom, i, r) ==
    [nodes    |-> [dom.nodes EXCEPT ![i] = r.node],
     classes  |-> IF r.hints = <<>> THEN dom.classes
                  ELSE [dom.classes EXCEPT ![r.node.parent4] = @ \o r.hints],
     outcomes |-> [dom.outcomes EXCEPT ![i] = r.outcome]]

\* a faulty loop, for the sensitivity of C5: the first failure ends the pass
RECURSIVE decryptUntilFailure(_, _, _, _, _)
decryptUntilFailure(i, dom, key, rnd, emojis) ==
    IF i < 1 \/ \E j \in (i + 1)..Len(dom.outcomes) : dom.outcomes[j] \in {"threw", "empty"}
    THEN dom
    ELSE decryptUntilFailure(i - 1,
                     applied(dom, i, decryptNode(dom.nodes[i], key, rnd[i], emojis)),
                     key, rnd, emojis)

\* lines 528-602: the elements are visited from the last to the first; dom
\* holds the elements, the class names and the outcome per element
RECURSIVE decryptFrom(_, _, _, _, _)
decryptFrom(i, dom, key, rnd, emojis) ==
    IF i < 1 THEN dom
    ELSE decryptFrom(i - 1,
                     applied(dom, i, decryptNode(dom.nodes[i], key, rnd[i], emojis)),
                     key, rnd, emojis)

decryptMessages(nodes, classes, key, rnd, emojis) ==
    decryptFrom(Len(nodes),
                [nodes |-> nodes, classes |-> classes,
                 outcomes |-> [i \in 1..Len(nodes) |-> "skipped"]],
                key, rnd, emojis)

---------------------------------------------------------------------------
(* chrome.storage.local *)

\* obj[key] != undefined
Stored(obj, key) == key \in DOMAIN obj

\* obj[key], with the empty string in place of undefined (lines 426-427)
OrEmpty(obj, key) == IF Stored(obj, key) THEN obj[key] ELSE <<>>

\* the value of a variable that was never assigned
undefined == <<"undefined">>

\* a computed property name ({[v1]: value}): undefined becomes "undefined"
PropertyName(key) ==
    IF key = undefined THEN <<"u","n","d","e","f","i","n","e","d">> ELSE key

\* saveChrome(key, value)
saveChrome(obj, key, value) ==
    [k \in DOMAIN obj \cup {PropertyName(key)} |->
        IF k = PropertyName(key) THEN value ELSE obj[k]]

\* removeChrome(key)
removeChrome(obj, key) == [k \in DOMAIN obj \ {key} |-> obj[k]]

---------------------------------------------------------------------------
(* inject.js: setPassphrase *)

\* Sha256.hash: an injective digest, the text under a tag
Sha256hash(msg) == <<"#">> \o msg

retardedClientSideSalt == <<"9","A","K","0","Q","4","G","a","0","o">>

\* urlarr[i], which concatenates as "undefined" when the piece is missing
Piece(urlarr, i) == IF Len(urlarr) >= i THEN urlarr[i] ELSE undefinedText

\* lines 419-423: the keys under which the secrets of a location are read
pageScope(location) ==
    LET url == ReplaceFirst(location, httpsScheme, <<>>)
        urlarr == Split(url, <<"/">>)
    IN  [url |-> url,
         serverurl  |-> Piece(urlarr, 1) \o <<"/">> \o Piece(urlarr, 2) \o <<"/">> \o Piece(urlarr, 3),
         channelurl |-> url]

\* a faulty derivation, for the sensitivity of C6: the name and the location
\* are left out
deriveSecretsOnly(channelname, url, serverkey, channelkey) ==
    Sha256hash(serverkey \o channelkey \o retardedClientSideSalt)

\* line 430
derive(channelname, url, serverkey, channelkey) ==
    Sha256hash(channelname \o url \o serverkey \o channelkey \o retardedClientSideSalt)

\* a faulty derivation, for the sensitivity of C20: the passphrase stays the
\* empty one of line 408
initialPassphrase(obj, location, channelname) == <<>>

\* lines 419-430, for the page as it is when the storage answers with obj
derivedPassphrase(obj, location, channelname) ==
    LET scope == pageScope(location)
    IN  derive(channelname, scope.url,
               OrEmpty(obj, scope.serverurl), OrEmpty(obj, scope.channelurl))

---------------------------------------------------------------------------
(* inject.js: the emoji map *)

joy == [code |-> <<":","j","o","y",":">>,
        markup |-> <<"<","i","m","g"," ","s","r","c","=","\"","/","a","s","s","e","t",
            "s","/","c","a","e","9","e","3","b","0","2","a","f","6","e","9","8","7","4",
            "4","2","d","f","2","9","5","3","d","e","0","2","6","f","c",".","s","v","g",
            "\""," ","a","r","i","a","-","l","a","b","e","l","=","\"",":","j","o","y",":",
            "\""," ","a","l","t","=","\"",":","j","o","y",":","\""," ","d","r","a","g","g",
            "a","b","l","e","=","\"","f","a","l","s","e","\""," ","c","l","a","s","s","=",
            "\"","e","m","o","j","i"," ","j","u","m","b","o","a","b","l","e","\"",">">>]

sob == [code |-> <<":","s","o","b",":">>,
        markup |-> <<"<","i","m","g"," ","s","r","c","=","\"","/","a","s","s","e","t",
            "s","/","4","d","c","1","3","f","d","5","2","f","6","9","1","0","2","0","a",
            "1","3","0","8","c","5","b","6","c","b","c","6","f","4","9",".","s","v","g",
            "\""," ","a","r","i","a","-","l","a","b","e","l","=","\"",":","s","o","b",":",
            "\""," ","a","l","t","=","\"",":","s","o","b",":","\""," ","d","r","a","g","g",
            "a","b","l","e","=","\"","f","a","l","s","e","\""," ","c","l","a","s","s","=",
            "\"","e","m","o","j","i"," ","j","u","m","b","o","a","b","l","e","\"",">">>]

\* lines 189-211: the built-in codes (the first and the eighth of the 23
\* assignments; the others have the same shape)
builtinEmojis == <<joy, sob>>

\* replacementarr[code] = markup: a known code keeps its place, a new one is
\* added last
setEmoji(emojis, code, markup) ==
    IF \E i \in 1..Len(emojis) : emojis[i].code = code
    THEN [i \in 1..Len(emojis) |->
            IF emojis[i].code = code THEN [code |-> code, markup |-> markup] ELSE emojis[i]]
    ELSE Append(emojis, [code |-> code, markup |-> markup])

RECURSIVE setEmojis(_, _)
setEmojis(emojis, pairs) ==
    IF pairs = <<>> THEN emojis
    ELSE setEmojis(setEmoji(emojis, Head(pairs).code, Head(pairs).markup), Tail(pairs))

\* lines 184-214: the callback of loadEmojis
loadedEmojis(emojis, stored) ==
    setEmojis(IF stored.defined THEN stored.map ELSE emojis, builtinEmojis)

\* lines 629-636: the images whose aria-label starts with ":"
RECURSIVE harvest(_, _)
harvest(emojis, imgs) ==
    IF imgs = <<>> THEN emojis
    ELSE LET img == Head(imgs)
         IN  harvest(IF img.label # <<>> /\ img.label[1] = ":"
                     THEN setEmoji(emojis, img.label, img.outerHTML) ELSE emojis,
                     Tail(imgs))


---------------------------------------------------------------------------
(* inject.js: the recurring tick and the storage callbacks *)

CounterWrap == 1000000
LearnEvery == 1000

\* bounds of the model
MaxPending == 2     \* storage reads that may be waiting for their answer
MaxTicks == 2       \* ticks taken after the start (and after a harvest)
MaxNodes == 2       \* message elements in the page

\* the salts the random generator may draw (WordArray.random)
Salts == {5, 58}

\* the kdf draws a salt for the elements whose text has the marker but not
\* the salt header; for the others the draw does not happen
drawsSalt(node) ==
    /\ node.innerHTML # <<>> /\ node.innerHTML[1] = stopkey
    /\ LET units == Base64parse(stripped(node.innerHTML))
       IN  units = <<>> \/ units[1] # Magic[1]

SaltDraws(nodes) ==
    {rnd \in [1..Len(nodes) -> Salts] :
        \A i \in 1..Len(nodes) : ~drawsSalt(nodes[i]) => rnd[i] = Min(Salts)}

placeholder ==
    <<"[","E","n","c","r","y","p","t","e","d",","," ","p","r","e","s","s"," ","e",
      "n","t","e","r","]">>

\* no decrypt pass observed yet
noPass ==
    [called |-> FALSE, ran |-> FALSE, threw |-> FALSE, key |-> <<>>,
     serverStored |-> FALSE, channelStored |-> FALSE,
     before |-> <<>>, classesBefore |-> <<>>, after |-> <<>>, classesAfter |-> <<>>,
     outcomes |-> <<>>, prior |-> {}, rewritten |-> {}]

\* the last two derivations, the older first
Remember(history, d) ==
    IF history = <<>> THEN <<d>> ELSE <<history[Len(history)], d>>

\* setInterval (line 613) fires the tick whatever the earlier ticks and
\* callbacks did; only the bounds of the model hold it back
TickAllowed ==
    /\ Len(pending) < MaxPending
    /\ counter % LearnEvery < MaxTicks \/ counter % LearnEvery = LearnEvery - 1

\* a faulty rewrite, for the sensitivity of C13: only the first textarea
placeholderFirst(values) ==
    [i \in 1..Len(values) |-> IF i = 1 THEN placeholder ELSE values[i]]

\* lines 644-651: every textarea gets the label as its value
placeholders(values) ==
    [i \in 1..Len(values) |-> placeholder]

\* a faulty tick, for the sensitivity of C25: the label whatever the flag
shownValuesAlways(flag, values) == placeholders(values)

\* lines 643-653: the textareas are written only when the send flag is set
shownValues(flag, values) == IF flag THEN placeholders(values) ELSE values

\* lines 616-654: intervalfunc.  setPassphrase (line 620) only issues the
\* storage read; its callback is setPassphraseCallback.
intervalfunc ==
    /\ TickAllowed
    /\ counter' = (counter + 1) % CounterWrap
    /\ LET learn == counter' % LearnEvery = 0
           learned == harvest(replacementarr, allemojis)
       IN  /\ replacementarr' = IF learn THEN learned ELSE replacementarr
           /\ emojidata' = IF learn THEN [defined |-> TRUE, map |-> learned] ELSE emojidata
           /\ pending' = pending \o <<"setPassphrase">>
                                 \o (IF learn THEN <<"loadEmojis">> ELSE <<>>)
    /\ textareaarray' = shownValues(send, textareaarray)
    /\ send' = FALSE
    /\ UNCHANGED <<encryptedmessages, className, title, href, allemojis, storage,
                   passphrase, lastKeyWasStopKey, popupVars, obsVars, codecVars>>

\* lines 184-214: the storage answers loadEmojis
loadEmojisCallback ==
    /\ pending # <<>> /\ Head(pending) = "loadEmojis"
    /\ pending' = Tail(pending)
    /\ replacementarr' = loadedEmojis(replacementarr, emojidata)
    /\ UNCHANGED <<pageVars, storeVars, passphrase, send, lastKeyWasStopKey, counter,
                   popupVars, obsVars, codecVars>>

\* lines 417-435: the storage answers setPassphrase.  Without an element of
\* class title-29uC1r line 428 throws a TypeError and the callback ends there,
\* before the passphrase is assigned and before decryptMessages is called.
setPassphraseCallback ==
    /\ pending # <<>> /\ Head(pending) = "setPassphrase"
    /\ pending' = Tail(pending)
    /\ LET scope == pageScope(href)
           seen == [noPass EXCEPT !.called = TRUE,
                                  !.serverStored = Stored(storage, scope.serverurl),
                                  !.channelStored = Stored(storage, scope.channelurl),
                                  !.prior = lastPass.rewritten,
                                  !.rewritten = lastPass.rewritten]
       IN  IF title = <<>>
           THEN /\ lastPass' = [seen EXCEPT !.threw = TRUE]
                /\ UNCHANGED <<encryptedmessages, className, passphrase, derivations>>
           ELSE \E rnd \in SaltDraws(encryptedmessages) :
                \E key \in {derivedPassphrase(storage, href, title[1])} :
                \E dom \in {decryptMessages(encryptedmessages, className, key, rnd,
                                            replacementarr)} :
                    /\ passphrase' = key
                    /\ encryptedmessages' = dom.nodes
                    /\ className' = dom.classes
                    /\ derivations' = Remember(derivations,
                           [channelname |-> title[1], url |-> scope.url,
                            serverkey  |-> OrEmpty(storage, scope.serverurl),
                            channelkey |-> OrEmpty(storage, scope.channelurl),
                            passphrase |-> key])
                    /\ lastPass' = [seen EXCEPT
                           !.ran = TRUE, !.key = key,
                           !.before = encryptedmessages, !.classesBefore = className,
                           !.after = dom.nodes, !.classesAfter = dom.classes,
                           !.outcomes = dom.outcomes,
                           !.rewritten = lastPass.rewritten \cup
                               {i \in 1..Len(encryptedmessages) : dom.outcomes[i] # "skipped"}]
    /\ UNCHANGED <<title, href, textareaarray, allemojis, storeVars, replacementarr,
                   send, lastKeyWasStopKey, counter, popupVars, lastKey, lastClick, codecVars>>

---------------------------------------------------------------------------
(* The host page: what Discord and the user do to the DOM *)

location12 == <<"h","t","t","p","s",":","/","/","d","i","s","c","o","r","d",".","c","o","m","/","c","h","a","n","n","e","l","s","/","1","/","2">>
location13 == <<"h","t","t","p","s",":","/","/","d","i","s","c","o","r","d",".","c","o","m","/","c","h","a","n","n","e","l","s","/","1","/","3">>
Locations == {location12, location13}

general == <<"g","e","n","e","r","a","l">>
random == <<"r","a","n","d","o","m">>

\* the title element is absent (<<>>) or shows a channel name
Titles == {<<>>, <<general>>, <<random>>}

\* the message format the decrypt pass expects (lines 531-533): the transport
\* string between two delimiters
wrapped(T) == <<stopkey>> \o T \o <<stopkey>>

\* the passphrases of the clients that wrote the messages of the page
KeyWith == derive(general, pageScope(location12).url, <<"a","b","c","d","e","f">>, <<>>)
KeyWithout == derive(general, pageScope(location12).url, <<>>, <<>>)
KeyOther == derive(general, pageScope(location12).url, <<"g","h","i","j","k","l">>, <<>>)

hi == <<"h","i">>

\* the contents of the messages other clients post
Posts ==
    {hi,
      wrapped(AESencrypt(hi, KeyWith, 5)),
      wrapped(AESencrypt(<<"§","a">>, KeyWith, 5)),
      wrapped(AESencrypt(hi, KeyWithout, 58)),
      <<"§">>}

\* line 528: the live collection gains an element when a message arrives;
\* every message has a container of its own (line 577)
hostAppendMessage(post) ==
    /\ Len(encryptedmessages) < MaxNodes
    /\ encryptedmessages' = Append(encryptedmessages,
            [innerHTML |-> post, color |-> "", parent4 |-> Len(className) + 1])
    /\ className' = Append(className, <<"message">>)
    /\ UNCHANGED <<title, href, textareaarray, allemojis, storeVars, scriptVars,
                   popupVars, obsVars, codecVars>>

\* line 577: a message that arrives in the group of the one before it has
\* the same fourth ancestor
hostAppendGrouped(post) ==
    /\ Len(encryptedmessages) < MaxNodes
    /\ className # <<>>
    /\ encryptedmessages' = Append(encryptedmessages,
            [innerHTML |-> post, color |-> "", parent4 |-> Len(className)])
    /\ UNCHANGED <<className, title, href, textareaarray, allemojis, storeVars,
                   scriptVars, popupVars, obsVars, codecVars>>

\* line 628: the images the page shows at the moment, with and without a
\* label; the same emoji is drawn with another markup inside a line of text
tada == <<":","t","a","d","a",":">>
EmojiImages ==
    { [label |-> tada, outerHTML |-> <<"<","i","m","g",">">>],
      [label |-> tada, outerHTML |-> <<"<","i","m","g"," ","c","l","a","s","s","=","e",">">>],
      [label |-> joy.code, outerHTML |-> <<"<","i","m","g"," ","c","l","a","s","s","=","e",">">>],
      [label |-> <<>>, outerHTML |-> <<"<","i","m","g",">">>] }

hostShowImages(imgs) ==
    /\ imgs # allemojis
    /\ allemojis' = imgs
    /\ UNCHANGED <<encryptedmessages, className, title, href, textareaarray,
                   storeVars, scriptVars, popupVars, obsVars, codecVars>>

\* the maps another page that runs the script holds when it harvests
OtherMaps ==
    { builtinEmojis,
      builtinEmojis \o <<[code |-> <<":","o","k",":">>, markup |-> <<"<","i","m","g",">">>]>> }

\* line 638 in another page: its harvest saves its own map under "emojidata"
otherPageSave(map) ==
    /\ emojidata # [defined |-> TRUE, map |-> map]
    /\ emojidata' = [defined |-> TRUE, map |-> map]
    /\ UNCHANGED <<pageVars, storage, scriptVars, popupVars, obsVars, codecVars>>

\* line 428: the page shows, changes or drops the title element
hostSetTitle(t) ==
    /\ t # title
    /\ title' = t
    /\ UNCHANGED <<encryptedmessages, className, href, textareaarray, allemojis,
                   storeVars, scriptVars, popupVars, obsVars, codecVars>>

\* the store as the sessions of the popup leave it: no secret, a server
\* secret, another server secret, a server and a channel secret, and a
\* server secret that reads like those two one after the other
NoSecrets == <<>>
ServerSecret == saveChrome(NoSecrets, pageScope(location12).serverurl, <<"a","b","c","d","e","f">>)
OtherSecret == saveChrome(NoSecrets, pageScope(location12).serverurl, <<"g","h","i","j","k","l">>)
BothSecrets == saveChrome(ServerSecret, pageScope(location12).channelurl, <<"u","v","w","x","y","z">>)
JoinedSecret == saveChrome(NoSecrets, pageScope(location12).serverurl,
                           <<"a","b","c","d","e","f","u","v","w","x","y","z">>)
Stores == {NoSecrets, ServerSecret, OtherSecret, BothSecrets, JoinedSecret}

\* line 417: the store the next storage read sees is the one the popup left
\* (setKeys and removekeys of the popup script)
hostStore(obj) ==
    /\ obj # storage
    /\ storage' = obj
    /\ UNCHANGED <<pageVars, emojidata, scriptVars, popupVars, obsVars, codecVars>>

\* line 419: the user moves to another channel; the script keeps running
hostNavigate(location) ==
    /\ location # href
    /\ href' = location
    /\ UNCHANGED <<encryptedmessages, className, title, textareaarray, allemojis,
                   storeVars, scriptVars, popupVars, obsVars, codecVars>>

---------------------------------------------------------------------------
(* inject.js: the keydown listener *)

\* the keydown events: the key, its code, and whether the first textarea has
\* the focus (the listener is registered on the document, so the trigger key
\* reaches it from anywhere in the page; the other keys are typed into the
\* input)
Events ==
    [key : {"§"}, keyCode : {51}, focus : BOOLEAN]
    \cup [key : {"Enter"}, keyCode : {13}, focus : {TRUE}]
    \cup [key : {"Backspace"}, keyCode : {8}, focus : {TRUE}]
    \cup [key : {"Control"}, keyCode : {17}, focus : {TRUE}]
    \cup [key : {"a"}, keyCode : {65}, focus : {TRUE}]

MaxKeys == 3         \* keydowns of a behaviour

\* lines 503-507: str = stopkey; str += CryptoJS.AES.encrypt(textToEncrypt, passphrase)
staged(textToEncrypt, key, salt) == <<stopkey>> \o AESencrypt(textToEncrypt, key, salt)

\* what the browser does with an unprevented key in the focused input: a
\* character is inserted at the caret (the end), Backspace deletes before it
defaultAction(values, event) ==
    IF ~event.focus \/ values = <<>> THEN values
    ELSE IF event.key \in {"§", "a"} THEN [values EXCEPT ![1] = Append(@, event.key)]
    ELSE IF event.key = "Backspace" THEN [values EXCEPT ![1] = SubstringTo(@, Len(@) - 1)]
    ELSE values

noKey ==
    [n |-> 0, handled |-> FALSE, event |-> [key |-> "", keyCode |-> 0, focus |-> FALSE],
     armedBefore |-> FALSE, sendBefore |-> FALSE, armedAfter |-> FALSE,
     sendAfter |-> FALSE, prevented |-> FALSE, threw |-> FALSE,
     encoded |-> FALSE, text |-> <<>>, key |-> <<>>, salt |-> 0,
     before |-> <<>>, written |-> <<>>, after |-> <<>>]

\* a faulty suppression, for the sensitivity of C11: the trigger key is let
\* through while armed
suppressedUnlessTrigger(armed, event) ==
    armed /\ ~(event.keyCode = 13 \/ event.keyCode = 8 \/ event.key = stopkey)

\* line 495: lastKeyWasStopKey && !(event.keyCode == 13 || event.keyCode == 8)
suppressed(armed, event) ==
    armed /\ ~(event.keyCode = 13 \/ event.keyCode = 8)

\* a faulty reset, for the sensitivity of C12: the Control key is ignored
neverReset(armed, event) == armed

\* lines 491-493: the Control key resets the flag before anything else
afterControl(armed, event) ==
    IF event.keyCode = 17 THEN FALSE ELSE armed

\* lines 489-513, followed by the default action of the key unless the
\* listener prevented it
keydown(event) ==
    LET armed     == afterControl(lastKeyWasStopKey, event)
        prevented == suppressed(armed, event)
        trigger   == ~prevented /\ event.key = stopkey
        threw     == trigger /\ textareaarray = <<>>
        encodes   == trigger /\ ~threw
    IN  /\ lastKey.n < MaxKeys
        /\ \E salt \in (IF encodes THEN Salts ELSE {Min(Salts)}) :
           LET written == IF encodes
                          THEN [textareaarray EXCEPT ![1] = staged(@, passphrase, salt)]
                          ELSE textareaarray
               after == IF prevented THEN written ELSE defaultAction(written, event)
           IN  /\ lastKeyWasStopKey' = IF prevented THEN armed ELSE trigger
               /\ send' = (send \/ trigger)
               /\ textareaarray' = after
               /\ lastKey' = [n |-> lastKey.n + 1, handled |-> TRUE, event |-> event,
                              armedBefore |-> lastKeyWasStopKey, sendBefore |-> send,
                              armedAfter |-> lastKeyWasStopKey', sendAfter |-> send',
                              prevented |-> prevented, threw |-> threw,
                              encoded |-> encodes,
                              text |-> IF encodes THEN textareaarray[1] ELSE <<>>,
                              key |-> passphrase, salt |-> salt,
                              before |-> textareaarray, written |-> written,
                              after |-> after]
    /\ UNCHANGED <<encryptedmessages, className, title, href, allemojis, storeVars,
                   passphrase, replacementarr, counter, pending, popupVars,
                   lastPass, derivations, lastClick, codecVars>>

---------------------------------------------------------------------------
(* The popup script *)

\* a faulty scope, for the sensitivity of C8: the server key has two segments
popupScopeTwo(tabUrl) ==
    LET url == ReplaceFirst(tabUrl, httpsScheme, <<>>)
        urlarr == Split(url, <<"/">>)
    IN  [serverurl  |-> Piece(urlarr, 1) \o <<"/">> \o Piece(urlarr, 2),
         channelurl |-> url]

\* lines 66-69 of the popup script: the keys under which the secrets of the
\* active tab are written
popupScope(tabUrl) ==
    LET url == ReplaceFirst(tabUrl, httpsScheme, <<>>)
        urlarr == Split(url, <<"/">>)
    IN  [serverurl  |-> Piece(urlarr, 1) \o <<"/">> \o Piece(urlarr, 2) \o <<"/">> \o Piece(urlarr, 3),
         channelurl |-> url]

\* value.replace(/\s/g, '')
RECURSIVE withoutSpaces(_)
withoutSpaces(value) ==
    IF value = <<>> THEN <<>>
    ELSE (IF Head(value) = " " THEN <<>> ELSE <<Head(value)>>) \o withoutSpaces(Tail(value))

\* a faulty test, for the sensitivity of C9: five characters are enough
longerThanFour(key) == Len(key) > 4

\* lines 119 and 126: key.length > 5
longEnough(key) == Len(key) > 5

doneText == <<"D","o","n","e",".">>
deletedText == <<"d","e","l","e","t","e","d">>

\* what the user may type into the two inputs
ServerInputs == {<<"a","b","c"," ","d","e">>, <<"a","b","c"," ","d","e","f">>}
ChannelInputs == {<<>>, <<"u","v","w">>, <<"u","v"," ","w","x","y","z">>}

noClick ==
    [button |-> "", serverkey |-> <<>>, channelkey |-> <<>>, serverurl |-> <<>>,
     channelurl |-> <<>>, tab |-> <<>>, loaded |-> FALSE, before |-> <<>>,
     alerts |-> <<>>]

\* lines 10-15 and 106: the popup is closed and opened again, its script
\* runs anew and loadKeys issues the tabs query
popupLoad ==
    /\ serverurl' = undefined /\ channelurl' = undefined
    /\ info' = <<>>
    /\ fields' = [server |-> <<>>, channel |-> <<>>]
    /\ tabsQuery' = TRUE
    /\ lastClick' = noClick
    /\ UNCHANGED <<pageVars, storeVars, scriptVars, lastPass, lastKey, derivations,
                   codecVars>>

\* lines 65-80: the tabs query answers with the active tab, whose url is the
\* location of the page; the stored secrets are put into the inputs
loadKeysCallback ==
    /\ tabsQuery
    /\ tabsQuery' = FALSE
    /\ LET scope == popupScope(href)
       IN  /\ serverurl' = scope.serverurl
           /\ channelurl' = scope.channelurl
           /\ fields' = [server  |-> IF Stored(storage, scope.serverurl)
                                      THEN storage[scope.serverurl] ELSE fields.server,
                          channel |-> IF Stored(storage, scope.channelurl)
                                      THEN storage[scope.channelurl] ELSE fields.channel]
    /\ lastClick' = [noClick EXCEPT !.tab = href, !.loaded = TRUE]
    /\ UNCHANGED <<pageVars, storeVars, scriptVars, info, lastPass, lastKey,
                   derivations, codecVars>>

\* the user types into the inputs "server-key" and "channel-key"
hostFill(server, channel) ==
    /\ fields # [server |-> server, channel |-> channel]
    /\ fields' = [server |-> server, channel |-> channel]
    /\ UNCHANGED <<pageVars, storeVars, scriptVars, serverurl, channelurl, info,
                   tabsQuery, obsVars, codecVars>>

\* lines 117-136: setKeys
setKeys ==
    /\ LET serverkey  == withoutSpaces(fields.server)
           channelkey == withoutSpaces(fields.channel)
           click == [lastClick EXCEPT !.button = "setkeys", !.serverkey = serverkey,
                                      !.channelkey = channelkey, !.serverurl = serverurl,
                                      !.channelurl = channelurl, !.before = storage]
       IN  IF longEnough(serverkey)
           THEN LET first == saveChrome(storage, serverurl, serverkey)
                IN  /\ storage' = IF channelkey # <<>> /\ longEnough(channelkey)
                                  THEN saveChrome(first, channelurl, channelkey)
                                  ELSE first
                    /\ info' = doneText
                    /\ lastClick' = [click EXCEPT !.alerts =
                           IF channelkey # <<>> /\ ~longEnough(channelkey)
                           THEN <<"Your channel password is too short">> ELSE <<>>]
           ELSE /\ lastClick' = [click EXCEPT !.alerts = <<"Your server password is too short">>]
                /\ UNCHANGED <<storage, info>>
    /\ UNCHANGED <<pageVars, emojidata, scriptVars, serverurl, channelurl, fields,
                   tabsQuery, lastPass, lastKey, derivations, codecVars>>

\* lines 153-163: removekeys; chrome.storage.local.remove rejects a key that
\* is undefined, which the catch turns into an alert
removekeys ==
    /\ LET click == [lastClick EXCEPT !.button = "removekeys", !.serverkey = <<>>,
                                      !.channelkey = <<>>, !.serverurl = serverurl,
                                      !.channelurl = channelurl, !.before = storage]
       IN  IF serverurl = undefined
           THEN /\ lastClick' = [click EXCEPT !.alerts = <<"Error. Could not remove keys">>]
                /\ UNCHANGED <<storage, info>>
           ELSE /\ storage' = removeChrome(removeChrome(storage, serverurl), channelurl)
                /\ info' = deletedText
                /\ lastClick' = [click EXCEPT !.alerts = <<>>]
    /\ UNCHANGED <<pageVars, emojidata, scriptVars, serverurl, channelurl, fields,
                   tabsQuery, lastPass, lastKey, derivations, codecVars>>

---------------------------------------------------------------------------
(* The codec as a function: encrypt, post, decrypt *)

MaxPlainLen == 3    \* length of the plaintexts
MaxRawLen == 4      \* length of what follows the delimiter in an arbitrary node

Strings(alphabet, n) == UNION {[1..k -> alphabet] : k \in 0..n}

PlainTexts == Strings({"a", "§", "E"}, MaxPlainLen)
RawContents == {<<stopkey>> \o r : r \in Strings({"§", "U", "=", "h"}, MaxRawLen)}
Passphrases == {KeyWith, KeyWithout, KeyOther}

\* texts around the two limits of lines 585 and 590, without and with a tag
Repeated(c, n) == [i \in 1..n |-> c]
SizedLengths == {79, 80, 81, 200, 201}
SizedTexts ==
    {Repeated("a", n) : n \in SizedLengths}
    \cup {<<"<","b",">">> \o Repeated("a", n) : n \in SizedLengths}

\* texts for the classifier: an emoji code, a colon, the word that starts
\* the URL detection, a video link after a word, before a line break and
\* after a line break, a link that holds an emoji code, and video links of
\* the two sites without and with a code
watchLink(code) ==
    <<"h","t","t","p","s",":","/","/","y","o","u","t","u","b","e",".","c","o","m",
      "/","w","a","t","c","h","?","v","=">> \o code
videoLink(code) ==
    <<"h","t","t","p","s",":","/","/","b","i","t","c","h","u","t","e",".","c","o","m",
      "/","v","i","d","e","o","/">> \o code
ClassifiedTexts ==
    { <<":","j","o","y",":">>,
      <<"a",":","b">>,
      https,
      <<"c","h","e","c","k"," ">> \o watchLink(<<"a","b","c","1","2","3">>),
      watchLink(<<"a","1">>) \o <<"\n","o","k">>,
      <<"o","k","\n">> \o watchLink(<<"a","1">>),
      <<"h","t","t","p","s",":","/","/","e",".","x","/",":","j","o","y",":">>,
      SubstringTo(watchLink(<<>>), Len(watchLink(<<>>)) - 3) \o <<" ","o","k">>,
      videoLink(<<>>) \o <<" ","o","k">>,
      videoLink(<<"b","2">>) }

CodecInputs ==
    [kind : {"text"}, text : PlainTexts, K1 : Passphrases, K2 : Passphrases, salt : Salts]
    \cup [kind : {"text"}, text : ClassifiedTexts, K1 : {KeyWith}, K2 : {KeyWith},
          salt : {Min(Salts)}]
    \cup [kind : {"text"}, text : SizedTexts, K1 : {KeyWith}, K2 : {KeyWith},
          salt : {Min(Salts)}]
    \cup [kind : {"node"}, text : RawContents, K1 : {KeyWith}, K2 : {KeyWith}, salt : Salts]

noOutput ==
    [stage |-> "input", content |-> <<>>, decoded |-> [malformed |-> FALSE, text |-> <<>>],
     shown |-> [node |-> [innerHTML |-> <<>>, color |-> "", parent4 |-> 1],
                hints |-> <<>>, outcome |-> "skipped"]]

\* lines 503-508 and the closing delimiter: the message as it is posted
codecEncrypt ==
    /\ cin.kind = "text" /\ cout.stage = "input"
    /\ cout' = [cout EXCEPT !.stage = "posted",
                            !.content = wrapped(AESencrypt(cin.text, cin.K1, cin.salt))]
    /\ UNCHANGED <<pageVars, storeVars, scriptVars, popupVars, obsVars, cin>>

\* line 530: a node with any content after the delimiter
codecPost ==
    /\ cin.kind = "node" /\ cout.stage = "input"
    /\ cout' = [cout EXCEPT !.stage = "posted", !.content = cin.text]
    /\ UNCHANGED <<pageVars, storeVars, scriptVars, popupVars, obsVars, cin>>

\* lines 530-601 on that node, under the passphrase K2
codecDecrypt ==
    /\ cout.stage = "posted"
    /\ cout' = [cout EXCEPT
           !.stage = "decoded",
           !.decoded = Utf8stringify(AESdecrypt(stripped(cout.content), cin.K2, cin.salt)),
           !.shown = decryptNode([innerHTML |-> cout.content, color |-> "", parent4 |-> 1],
                                 cin.K2, cin.salt, builtinEmojis)]
    /\ UNCHANGED <<pageVars, storeVars, scriptVars, popupVars, obsVars, cin>>

---------------------------------------------------------------------------
(* The live collection of a pass: candidates nested in candidates *)

MaxElements == 3    \* candidate elements in the document when a pass starts

\* the candidates in document order; inside[k] is the nearest candidate that
\* encloses the k-th one (0: none), so it is 0, the one before, or one that
\* encloses the one before
RECURSIVE Encloses(_, _, _)
Encloses(inside, a, k) ==
    /\ k # 0
    /\ inside[k] # 0
    /\ (inside[k] = a \/ Encloses(inside, a, inside[k]))

Nestings(n) ==
    {inside \in [1..n -> 0..(n - 1)] :
        \A k \in 1..n : \/ inside[k] = 0
                        \/ /\ k > 1
                           /\ (inside[k] = k - 1 \/ Encloses(inside, inside[k], k - 1))}

\* line 528: the collection is live, an element is an entry while it is in
\* the document
collected(inside) == [k \in 1..Len(inside) |-> [id |-> k, inside |-> inside[k]]]

RECURSIVE Within(_, _, _)
Within(coll, x, a) ==
    /\ x.inside # 0
    /\ \/ x.inside = a
       \/ \E p \in Range(coll) : p.id = x.inside /\ Within(coll, p, a)

\* lines 540, 573, 599: the assignment to innerHTML of the entry i takes
\* what was inside it out of the document and puts the candidates of the new
\* markup, k of them, right after it
rewritten(coll, i, k) ==
    LET e == coll[i].id
        Outside(x) == ~Within(coll, x, e)
        kept == SelectSeq(coll, Outside)
        ids == {x.id : x \in Range(coll)}
        last == CHOOSE m \in ids : \A x \in ids : x <= m
        new == [j \in 1..k |-> [id |-> last + j, inside |-> e]]
    IN  SubSeq(kept, 1, i) \o new \o SubSeq(kept, i + 1, Len(kept))

\* a faulty start of the loop, for the sensitivity of C21
firstIndexShort(coll) == Len(coll) - 1

\* line 529, counted from 1
firstIndex(coll) == Len(coll)

CollectionInputs ==
    UNION {[kind : {"collection"}, inside : Nestings(n), marked : [1..n -> BOOLEAN],
            inserts : [1..n -> 0..1]] : n \in 1..MaxElements}

\* lines 528-529: the pass starts
collectionStart ==
    /\ cin.kind = "collection" /\ cout.stage = "input"
    /\ cout' = [stage |-> "visiting", i |-> firstIndex(collected(cin.inside)),
                collection |-> collected(cin.inside), visited |-> <<>>]
    /\ UNCHANGED <<pageVars, storeVars, scriptVars, popupVars, obsVars, cin>>

\* lines 529-602: one turn of the loop; an entry that carries the marker is
\* rewritten on every path through lines 531-600
collectionVisit ==
    /\ cin.kind = "collection" /\ cout.stage = "visiting"
    /\ IF cout.i >= 1
       THEN LET e == cout.collection[cout.i]
                marked == e.id \in DOMAIN cin.marked /\ cin.marked[e.id]
            IN  cout' = [cout EXCEPT
                    !.i = cout.i - 1,
                    !.visited = Append(cout.visited, e.id),
                    !.collection = IF marked
                                   THEN rewritten(cout.collection, cout.i, cin.inserts[e.id])
                                   ELSE cout.collection]
       ELSE cout' = [cout EXCEPT !.stage = "visited"]
    /\ UNCHANGED <<pageVars, storeVars, scriptVars, popupVars, obsVars, cin>>

---------------------------------------------------------------------------
(* Specifications *)

\* the script was injected into a page (lines 181, 217, 408, 487-488, 614):
\* nothing is decrypted yet
InitScript ==
    /\ passphrase = <<>>
    /\ send = FALSE /\ lastKeyWasStopKey = FALSE
    /\ emojidata = [defined |-> FALSE, map |-> <<>>]
    /\ allemojis = <<[label |-> <<":","t","a","d","a",":">>,
                      outerHTML |-> <<"<","i","m","g",">">>]>>
    /\ lastPass = noPass /\ lastKey = noKey /\ derivations = <<>> /\ lastClick = noClick

\* the popup has just been opened (lines 10-15 and 106 of its script)
InitPopup ==
    /\ serverurl = undefined /\ channelurl = undefined /\ info = <<>>
    /\ fields = [server |-> <<>>, channel |-> <<>>]
    /\ tabsQuery = TRUE

InitCodec == cin = [kind |-> "text", text |-> <<>>, K1 |-> KeyWith, K2 |-> KeyWith,
                    salt |-> 5] /\ cout = noOutput


\* the page loop: either right after the injection (the load-time loadEmojis
\* unanswered), or one tick before the first harvest on a page that had no
\* title element so far (every callback threw and left no trace)
Init ==
    /\ InitScript /\ InitPopup /\ InitCodec
    /\ encryptedmessages = <<>> /\ className = <<>>
    /\ href = location12
    /\ textareaarray = <<<<>>>>
    /\ storage \in {NoSecrets, ServerSecret}
    /\ \/ /\ counter = 0
          /\ pending = <<"loadEmojis">>
          /\ replacementarr = <<>>
          /\ title \in {<<>>, <<general>>}
       \/ /\ counter = LearnEvery - 1
          /\ pending = <<>>
          /\ replacementarr = loadedEmojis(<<>>, emojidata)
          /\ title = <<>>

Next ==
    \/ intervalfunc
    \/ loadEmojisCallback
    \/ setPassphraseCallback
    \/ \E post \in Posts : hostAppendMessage(post)
    \/ \E t \in {<<>>, <<general>>} : hostSetTitle(t)

Spec == Init /\ [][Next]_vars

\* the codec on its own
InitCodecInputs ==
    /\ InitScript /\ InitPopup
    /\ encryptedmessages = <<>> /\ className = <<>>
    /\ href = location12 /\ title = <<general>>
    /\ textareaarray = <<<<>>>>
    /\ storage = NoSecrets
    /\ counter = 0 /\ pending = <<"loadEmojis">> /\ replacementarr = <<>>
    /\ cin \in CodecInputs /\ cout = noOutput

NextCodec == codecEncrypt \/ codecPost \/ codecDecrypt

SpecCodec == InitCodecInputs /\ [][NextCodec]_vars

\* the keyboard: the script has been running on a channel page
InitInput ==
    /\ InitScript /\ InitPopup /\ InitCodec
    /\ encryptedmessages = <<>> /\ className = <<>>
    /\ href = location12 /\ title = <<general>>
    /\ textareaarray \in {<<>>, <<<<>>>>, <<<<>>, <<>>>>}
    /\ storage = ServerSecret
    /\ counter = 0 /\ pending = <<"loadEmojis">> /\ replacementarr = <<>>

NextInput ==
    \/ \E event \in Events : keydown(event)
    \/ intervalfunc
    \/ loadEmojisCallback
    \/ setPassphraseCallback

SpecInput == InitInput /\ [][NextInput]_vars

\* the popup: the user opens it on a channel page, types secrets, clicks the
\* buttons, and moves the tab to another channel
InitKeys ==
    /\ InitScript /\ InitPopup /\ InitCodec
    /\ encryptedmessages = <<>> /\ className = <<>>
    /\ href = location12 /\ title = <<general>>
    /\ textareaarray = <<<<>>>>
    /\ storage = NoSecrets
    /\ counter = 0 /\ pending = <<"loadEmojis">> /\ replacementarr = <<>>

NextKeys ==
    \/ popupLoad
    \/ loadKeysCallback
    \/ \E server \in ServerInputs, channel \in ChannelInputs : hostFill(server, channel)
    \/ setKeys
    \/ removekeys
    \/ \E location \in Locations : hostNavigate(location)

SpecKeys == InitKeys /\ [][NextKeys]_vars

\* the derivation: the page loop while the title, the location and the store
\* change under it
InitSecrets ==
    /\ InitScript /\ InitPopup /\ InitCodec
    /\ encryptedmessages = <<>> /\ className = <<>>
    /\ href = location12 /\ title \in {<<>>, <<general>>}
    /\ textareaarray = <<<<>>>>
    /\ storage \in Stores
    /\ counter = 0 /\ pending = <<"loadEmojis">> /\ replacementarr = <<>>

NextSecrets ==
    \/ intervalfunc
    \/ loadEmojisCallback
    \/ setPassphraseCallback
    \/ \E location \in Locations : hostNavigate(location)
    \/ \E t \in Titles : hostSetTitle(t)
    \/ \E obj \in Stores : hostStore(obj)

SpecSecrets == InitSecrets /\ [][NextSecrets]_vars

\* one pass over a document whose candidates are nested
InitCollection ==
    /\ InitScript /\ InitPopup
    /\ encryptedmessages = <<>> /\ className = <<>>
    /\ href = location12 /\ title = <<general>>
    /\ textareaarray = <<<<>>>>
    /\ storage = NoSecrets
    /\ counter = 0 /\ pending = <<"loadEmojis">> /\ replacementarr = <<>>
    /\ cin \in CollectionInputs /\ cout = noOutput

NextCollection == collectionStart \/ collectionVisit

SpecCollection == InitCollection /\ [][NextCollection]_vars

\* a channel whose members write under the server secret, on a page whose
\* user stores that secret while the messages arrive, alone or in groups
ThreadPosts == {wrapped(AESencrypt(hi, KeyWith, 5))}

InitThread ==
    /\ InitScript /\ InitPopup /\ InitCodec
    /\ encryptedmessages = <<>> /\ className = <<>>
    /\ href = location12 /\ title = <<general>>
    /\ textareaarray = <<<<>>>>
    /\ storage = NoSecrets
    /\ counter = 0 /\ pending = <<"loadEmojis">> /\ replacementarr = <<>>

NextThread ==
    \/ intervalfunc
    \/ loadEmojisCallback
    \/ setPassphraseCallback
    \/ \E post \in ThreadPosts : hostAppendMessage(post)
    \/ \E post \in ThreadPosts : hostAppendGrouped(post)
    \/ \E obj \in {NoSecrets, ServerSecret} : hostStore(obj)

SpecThread == InitThread /\ [][NextThread]_vars

\* the keyboard and the page loop on a channel page that holds a message
InitRegions ==
    /\ InitScript /\ InitPopup /\ InitCodec
    /\ encryptedmessages = <<[innerHTML |-> wrapped(AESencrypt(hi, KeyWith, 5)),
                              color |-> "", parent4 |-> 1]>>
    /\ className = <<<<"message">>>>
    /\ href = location12 /\ title = <<general>>
    /\ textareaarray = <<<<>>>>
    /\ storage = ServerSecret
    /\ counter = 0 /\ pending = <<"loadEmojis">> /\ replacementarr = <<>>

NextRegions ==
    \/ \E event \in Events : keydown(event)
    \/ intervalfunc
    \/ loadEmojisCallback
    \/ setPassphraseCallback

SpecRegions == InitRegions /\ [][NextRegions]_vars

\* the emoji map: a page without a title one tick before its first harvest,
\* the load-time loadEmojis answered from an empty store, while the page
\* shows images and another page saves its map
InitEmoji ==
    /\ InitScript /\ InitPopup /\ InitCodec
    /\ encryptedmessages = <<>> /\ className = <<>>
    /\ href = location12 /\ title = <<>>
    /\ textareaarray = <<<<>>>>
    /\ storage = NoSecrets
    /\ counter = LearnEvery - 1 /\ pending = <<>>
    /\ replacementarr = loadedEmojis(<<>>, emojidata)

NextEmoji ==
    \/ intervalfunc
    \/ loadEmojisCallback
    \/ setPassphraseCallback
    \/ \E imgs \in {<<>>} \cup {<<img>> : img \in EmojiImages} : hostShowImages(imgs)
    \/ \E map \in OtherMaps : otherPageSave(map)

SpecEmoji == InitEmoji /\ [][NextEmoji]_vars

---------------------------------------------------------------------------
(* The claims *)

\* the element i of a pass carried the marker when the pass began
Marked(i) ==
    lastPass.before[i].innerHTML # <<>> /\ lastPass.before[i].innerHTML[1] = stopkey

\* C1: a message element that an earlier decrypt pass has rewritten keeps its
\* content in every later pass, and its container keeps its class names
C1_Idempotent ==
    lastPass.ran =>
        \A i \in lastPass.prior :
            /\ lastPass.after[i].innerHTML = lastPass.before[i].innerHTML
            /\ lastPass.classesAfter[lastPass.before[i].parent4]
                  = lastPass.classesBefore[lastPass.before[i].parent4]

\* C2: a plaintext that is encrypted under a passphrase, wrapped in two
\* delimiters, stripped of its first and last character and decrypted under
\* the same passphrase comes back unchanged
C2_RoundTrip ==
    (cout.stage = "decoded" /\ cin.kind = "text" /\ cin.K1 = cin.K2) =>
        /\ cout.content = <<stopkey>> \o AESencrypt(cin.text, cin.K1, cin.salt) \o <<stopkey>>
        /\ ~cout.decoded.malformed
        /\ cout.decoded.text = cin.text

\* C2, its case: a plaintext with the delimiter in it has made the round trip
C2_Witness ==
    /\ cout.stage = "decoded" /\ cin.kind = "text" /\ cin.K1 = cin.K2
    /\ cin.text = <<"§", "a", "E">>
    /\ cout.decoded.text = cin.text

\* C3: a message encrypted under one passphrase and processed under another
\* ends as the fallback text, with no class name for its container, and is
\* never rendered
C3_WrongKey ==
    (cout.stage = "decoded" /\ cin.kind = "text" /\ cin.K1 # cin.K2) =>
        /\ cout.shown.outcome \in {"threw", "empty"}
        /\ cout.shown.node.innerHTML = fallbackText
        /\ cout.shown.hints = <<>>

\* C4: an element whose content begins with the delimiter, whatever follows,
\* ends as rendered text of length at least one or as the fallback text; a
\* decode of length zero ends as the fallback text with no class name added
C4_DecodeBoundary ==
    cout.stage = "decoded" =>
        /\ cout.shown.outcome \in {"threw", "empty", "rendered"}
        /\ cout.shown.outcome = "rendered" =>
              /\ Len(cout.shown.node.innerHTML) >= 1
              /\ ~cout.decoded.malformed /\ Len(cout.decoded.text) >= 1
        /\ cout.shown.outcome \in {"threw", "empty"} =>
              cout.shown.node.innerHTML = fallbackText /\ cout.shown.hints = <<>>
        /\ (~cout.decoded.malformed /\ cout.decoded.text = <<>>) =>
              /\ cout.shown.outcome = "empty"
              /\ cout.shown.node.innerHTML = fallbackText
              /\ cout.shown.hints = <<>>

\* C4, its case: a truncated transport string decoded to length zero
C4_Witness ==
    /\ cout.stage = "decoded" /\ cin.kind = "node"
    /\ Len(cout.content) > 1
    /\ ~cout.decoded.malformed /\ cout.decoded.text = <<>>
    /\ cout.shown.node.innerHTML = fallbackText

\* C5: in a decrypt pass every element that carries the marker is processed
\* (rendered or set to the fallback text) whatever happened to the others;
\* the tick stays enabled, and a storage answer on a page with a title runs a
\* pass whatever the earlier passes did
C5_Isolation ==
    /\ lastPass.ran =>
          \A i \in 1..Len(lastPass.before) :
              Marked(i) =>
                  /\ lastPass.outcomes[i] \in {"threw", "empty", "rendered"}
                  /\ lastPass.outcomes[i] \in {"threw", "empty"} =>
                        lastPass.after[i].innerHTML = fallbackText
                  /\ lastPass.outcomes[i] = "rendered" =>
                        lastPass.after[i].color = "#fff"
    /\ TickAllowed => ENABLED intervalfunc
    /\ (lastPass.called /\ ~lastPass.threw) => lastPass.ran

\* C5, its case: the element visited first failed and the one visited after
\* it was rendered, in a pass that followed a pass with a failure
C5_Witness ==
    /\ lastPass.ran /\ Len(lastPass.before) = 2
    /\ Marked(1) /\ Marked(2)
    /\ lastPass.outcomes[2] \in {"threw", "empty"}
    /\ lastPass.outcomes[1] = "rendered"

\* the four inputs of a derivation
Inputs(d) == <<d.channelname, d.url, d.serverkey, d.channelkey>>

\* C6: the passphrase a tick sets is the hash of the channel name, the
\* location without its scheme, the server secret, the channel secret and the
\* salt, in that order; equal inputs set equal passphrases, and two
\* derivations that differ in exactly one input set different passphrases
C6_Derivation ==
    \A i, j \in 1..Len(derivations) :
        LET d == derivations[i]
            e == derivations[j]
            differing == {k \in 1..4 : Inputs(d)[k] # Inputs(e)[k]}
        IN  /\ d.passphrase = Sha256hash(d.channelname \o d.url \o d.serverkey
                                          \o d.channelkey \o retardedClientSideSalt)
            /\ differing = {} => d.passphrase = e.passphrase
            /\ Cardinality(differing) = 1 => d.passphrase # e.passphrase
            /\ i = Len(derivations) => passphrase = d.passphrase

\* C6, its case: two derivations in a row differ in the channel name only
C6_Witness ==
    /\ Len(derivations) = 2
    /\ derivations[1].channelname # derivations[2].channelname
    /\ derivations[1].url = derivations[2].url
    /\ derivations[1].serverkey = derivations[2].serverkey
    /\ derivations[1].channelkey = derivations[2].channelkey
    /\ derivations[1].passphrase # derivations[2].passphrase

\* C7: when the server secret, the channel secret or both are not stored, the
\* recomputation of the passphrase completes without an error, assigns the
\* passphrase and runs the decrypt pass
C7_AbsentSecrets ==
    (lastPass.called /\ ~(lastPass.serverStored /\ lastPass.channelStored)) =>
        ~lastPass.threw /\ lastPass.ran /\ passphrase = lastPass.key

\* C8: the keys under which setKeys writes the secrets of a tab are the keys
\* setPassphrase reads on the page of that tab: the first three segments of
\* the location without its scheme, and the whole location without its scheme
C8_ScopeKeys ==
    (lastClick.button = "setkeys" /\ lastClick.loaded) =>
        LET url == SubstringFrom(lastClick.tab, Len(httpsScheme))
            segments == Split(url, <<"/">>)
        IN  /\ lastClick.serverurl = pageScope(lastClick.tab).serverurl
            /\ lastClick.channelurl = pageScope(lastClick.tab).channelurl
            /\ lastClick.serverurl
                  = segments[1] \o <<"/">> \o segments[2] \o <<"/">> \o segments[3]
            /\ lastClick.channelurl = url
            /\ \A k \in DOMAIN storage :
                  k \in DOMAIN lastClick.before \/ k \in {lastClick.serverurl, lastClick.channelurl}
            /\ Len(lastClick.serverkey) >= 6 =>
                  /\ OrEmpty(storage, pageScope(lastClick.tab).serverurl) = lastClick.serverkey
                  /\ Len(lastClick.channelkey) >= 6 =>
                        OrEmpty(storage, pageScope(lastClick.tab).channelurl) = lastClick.channelkey

\* C8, its case: both secrets were written for the second channel
C8_Witness ==
    /\ lastClick.button = "setkeys" /\ lastClick.loaded
    /\ lastClick.tab = location13
    /\ Len(lastClick.channelkey) >= 6
    /\ Stored(storage, pageScope(location13).channelurl)
    /\ ~Stored(lastClick.before, pageScope(location13).channelurl)

\* C9: every stored secret has at least six characters and no white space,
\* and a click on setKeys with a server secret of fewer than six characters
\* writes nothing
C9_MinimumLength ==
    /\ \A k \in DOMAIN storage :
          Len(storage[k]) >= 6 /\ \A i \in 1..Len(storage[k]) : storage[k][i] # " "
    /\ (lastClick.button = "setkeys" /\ Len(lastClick.serverkey) < 6) =>
          storage = lastClick.before

\* C9, its case: a server secret of five characters after the removal of a
\* space was refused while the store held secrets
C9_Witness ==
    /\ lastClick.button = "setkeys"
    /\ fields.server = <<"a","b","c"," ","d","e">>
    /\ Len(lastClick.serverkey) = 5
    /\ Len(lastClick.channelkey) >= 6
    /\ lastClick.before # <<>>
    /\ storage = lastClick.before

\* C10: a keydown of the trigger key while idle arms the listener, sets the
\* send flag and leaves in the first textarea the delimiter, the encryption
\* of its previous value under the passphrase, and the delimiter again
C10_Arming ==
    (lastKey.handled /\ lastKey.event.key = stopkey /\ ~lastKey.armedBefore) =>
        /\ lastKey.armedAfter /\ lastKey.sendAfter
        /\ lastKey.after # <<>>
        /\ lastKey.after[1] = <<stopkey>>
               \o AESencrypt(lastKey.before[1], lastKey.key, lastKey.salt)
               \o <<stopkey>>

\* a keydown the listener suppressed left the listener's flag, the send flag
\* and the values of the textareas as they were
Untouched ==
    /\ lastKey.armedAfter = lastKey.armedBefore
    /\ lastKey.sendAfter = lastKey.sendBefore
    /\ lastKey.after = lastKey.before
    /\ ~lastKey.encoded

\* C11, as the code has it: while the listener is armed a keydown is
\* suppressed exactly when its key code is none of Enter (13), Backspace (8)
\* and Control (17), so the trigger key is suppressed as well; a suppressed
\* keydown changes neither the listener's flag, the send flag nor a textarea
C11_Suppression ==
    (lastKey.handled /\ lastKey.armedBefore) =>
        /\ lastKey.prevented <=> lastKey.event.keyCode \notin {13, 8, 17}
        /\ lastKey.prevented => Untouched

\* C11, its case: the trigger key was pressed while armed and was suppressed,
\* with the encrypted text staged in the textarea left as it was
C11_Witness ==
    /\ lastKey.handled /\ lastKey.armedBefore
    /\ lastKey.event.key = stopkey
    /\ lastKey.prevented
    /\ lastKey.before # <<>> /\ Len(lastKey.before[1]) > 1
    /\ lastKey.after = lastKey.before

\* C11, as stated: while the listener is armed a keydown is suppressed
\* exactly when its key is none of the trigger key, Enter and Backspace, and
\* a suppressed keydown changes nothing
C11_AsStated ==
    (lastKey.handled /\ lastKey.armedBefore) =>
        /\ lastKey.prevented <=> lastKey.event.key \notin {stopkey, "Enter", "Backspace"}
        /\ lastKey.prevented => Untouched

\* C12: a keydown of Enter (13) or of Control (17), from armed as from idle,
\* leaves the listener idle; the listener encrypts nothing, leaves the send
\* flag alone and writes no textarea
C12_Reset ==
    (lastKey.handled /\ lastKey.event.keyCode \in {13, 17}) =>
        /\ ~lastKey.armedAfter
        /\ ~lastKeyWasStopKey
        /\ ~lastKey.prevented
        /\ ~lastKey.encoded
        /\ lastKey.sendAfter = lastKey.sendBefore
        /\ lastKey.written = lastKey.before

\* C12, its case: Control was pressed while armed, with the encrypted text
\* staged in the textarea, and the listener is idle
C12_Witness ==
    /\ lastKey.handled /\ lastKey.event.keyCode = 17
    /\ lastKey.armedBefore /\ ~lastKey.armedAfter
    /\ lastKey.before # <<>> /\ Len(lastKey.before[1]) > 1
    /\ lastKey.written = lastKey.before

\* C13: a tick that finds the send flag set gives every textarea the value
\* "[Encrypted, press enter]" and clears the flag; the flag is set only by a
\* keydown of the trigger key that the listener did not suppress, and it is
\* cleared only by a tick
C13_Placeholder ==
    [][ /\ (send /\ counter' # counter) =>
              /\ ~send'
              /\ Len(textareaarray') = Len(textareaarray)
              /\ \A i \in 1..Len(textareaarray') : textareaarray'[i] = placeholder
        /\ (~send /\ send') =>
              /\ lastKey'.n = lastKey.n + 1
              /\ lastKey'.event.key = stopkey
              /\ ~lastKey'.prevented
        /\ (send /\ ~send') => counter' # counter ]_vars

\* C13, its case: the trigger key encrypted the first of two textareas and
\* set the flag, a tick cleared it, and both textareas show the label
C13_Witness ==
    /\ lastKey.handled /\ lastKey.encoded /\ lastKey.sendAfter
    /\ ~send
    /\ Len(textareaarray) = 2
    /\ \A i \in 1..Len(textareaarray) : textareaarray[i] = placeholder

\* C14: with L the length of the shown markup without its tags, the container
\* receives widermessage exactly when L > 80 and evenwidermessage exactly
\* when L > 200: neither at 79 and 80, the first alone at 81 and 200, both at
\* 201, and never the second without the first
C14_Sizing ==
    (cout.stage = "decoded" /\ cout.shown.outcome = "rendered") =>
        LET hints == Range(cout.shown.hints)
            L == cleanTextLength(cout.shown.node.innerHTML)
        IN  /\ "widermessage" \in hints <=> L > 80
            /\ "evenwidermessage" \in hints <=> L > 200
            /\ "evenwidermessage" \in hints => "widermessage" \in hints
            /\ \A n \in SizedLengths :
                  cin.text \in {Repeated("a", n), <<"<","b",">">> \o Repeated("a", n)} =>
                      /\ L = n
                      /\ "widermessage" \in hints <=> n \in {81, 200, 201}
                      /\ "evenwidermessage" \in hints <=> n = 201

\* C14, its case: a text of 81 characters behind a tag was shown, and its
\* container received widermessage alone
C14_Witness ==
    /\ cout.stage = "decoded" /\ cout.shown.outcome = "rendered"
    /\ cin.text = <<"<","b",">">> \o Repeated("a", 81)
    /\ cout.shown.node.innerHTML = cin.text
    /\ cout.shown.hints = <<"encryptedMessageContainer", "widermessage">>

Tokens(text) ==
    LET blanks == [i \in 1..Len(text) |-> IF text[i] = "\n" THEN " " ELSE text[i]]
    IN  {t \in Range(Split(blanks, <<" ">>)) : t # <<>>}

\* the word is a video link: "https://youtube.com/watch?v=" and a code
IsWatchLink(t) ==
    /\ Len(t) > Len(watchLink(<<>>))
    /\ SubstringTo(t, Len(watchLink(<<>>))) = watchLink(<<>>)

\* C16: when the decrypted text holds, between white space, a word
\* "https://youtube.com/watch?v=" followed by a code, the shown markup holds
\* an anchor whose target and text are that word, followed by an iframe whose
\* source ends in exactly that code; every other word is in the markup as it
\* was; and the container receives containsImage
C16_VideoEmbed ==
    (/\ cout.stage = "decoded" /\ cin.kind = "text" /\ cin.K1 = cin.K2
     /\ \E t \in Tokens(cin.text) : IsWatchLink(t)) =>
        /\ cout.shown.outcome = "rendered"
        /\ "containsImage" \in Range(cout.shown.hints)
        /\ \A t \in Tokens(cin.text) :
              IF IsWatchLink(t)
              THEN Includes(cout.shown.node.innerHTML,
                            youtubeMarkup(t, SubstringFrom(t, Len(watchLink(<<>>)))))
              ELSE Includes(cout.shown.node.innerHTML, t)

\* C17: the passphrase under which a keydown of the trigger key encrypts is
\* the one derived from the location, the channel name and the stored
\* secrets of that moment; it is never the empty passphrase the script
\* starts with
C17_CurrentPassphrase ==
    lastKey.encoded =>
        /\ lastKey.key # <<>>
        /\ title # <<>>
        /\ lastKey.key = derivedPassphrase(storage, href, title[1])

\* C18: the text a keydown of the trigger key encrypts is text the user
\* typed: never a text that starts with the delimiter, staged by an earlier
\* keydown of the trigger key, and never the label "[Encrypted, press enter]"
C18_NoReencryption ==
    lastKey.encoded =>
        /\ lastKey.text # placeholder
        /\ lastKey.text = <<>> \/ lastKey.text[1] # stopkey

\* C19: a pass rewrites an element only if its content begins and ends with
\* the delimiter; an element whose content begins with the delimiter and does
\* not end with it, like one that does not begin with it, keeps its content
\* and its colour, and its container receives no class name
C19_MarkerCheck ==
    cout.stage = "decoded" =>
        LET content == cout.content
            marked == /\ content # <<>>
                      /\ content[1] = stopkey
                      /\ content[Len(content)] = stopkey
        IN  ~marked =>
                /\ cout.shown.outcome = "skipped"
                /\ cout.shown.node.innerHTML = content
                /\ cout.shown.node.color = ""
                /\ cout.shown.hints = <<>>

\* the step in which the storage answers a setPassphrase
PassStep ==
    pending # <<>> /\ Head(pending) = "setPassphrase" /\ pending' = Tail(pending)

\* C20: the elements and the class names of the page are rewritten only in
\* the storage callback of setPassphrase, in the step that assigns the
\* passphrase; every element that pass shows as a text is what its content
\* decrypts to under that one passphrase, which is the hash of the channel
\* name, the location and the stored secrets of that moment and never the
\* empty passphrase the script starts with; the passphrase is assigned
\* nowhere else, and neither it nor anything else is written to the stored
\* secrets
C20_PassAfterDerivation ==
    [][ /\ (\/ \E i \in 1..Len(encryptedmessages) :
                  encryptedmessages'[i] # encryptedmessages[i]
            \/ \E c \in 1..Len(className) : className'[c] # className[c]) =>
              PassStep /\ title # <<>>
        /\ passphrase' # passphrase => PassStep /\ title # <<>>
        /\ (PassStep /\ title # <<>>) =>
              LET scope == pageScope(href)
              IN  /\ passphrase' # <<>>
                  /\ passphrase' = Sha256hash(title[1] \o scope.url
                                       \o OrEmpty(storage, scope.serverurl)
                                       \o OrEmpty(storage, scope.channelurl)
                                       \o retardedClientSideSalt)
                  /\ lastPass'.ran /\ lastPass'.key = passphrase'
                  /\ Len(encryptedmessages') = Len(encryptedmessages)
                  /\ lastPass'.before = encryptedmessages
                  /\ lastPass'.after = encryptedmessages'
                  /\ \A i \in 1..Len(encryptedmessages) :
                        CASE lastPass'.outcomes[i] = "skipped" ->
                               encryptedmessages'[i] = encryptedmessages[i]
                          [] lastPass'.outcomes[i] = "rendered" ->
                               \E rnd \in (IF drawsSalt(encryptedmessages[i])
                                           THEN Salts ELSE {Min(Salts)}) :
                                   encryptedmessages'[i]
                                     = decryptNode(encryptedmessages[i], passphrase',
                                                   rnd, replacementarr).node
                          [] OTHER ->
                               encryptedmessages'[i].innerHTML = fallbackText
        /\ (PassStep /\ title = <<>>) =>
              /\ ~lastPass'.ran
              /\ UNCHANGED <<passphrase, encryptedmessages, className>>
        /\ storage' = storage
        /\ \A k \in DOMAIN storage' : storage'[k] # passphrase' ]_vars

\* C20, its case: a pass under a passphrase derived with a stored secret
\* decrypted one of two elements and failed on the other
C20_Witness ==
    /\ lastPass.ran /\ lastPass.key = passphrase /\ passphrase # <<>>
    /\ lastPass.serverStored
    /\ Len(lastPass.before) = 2
    /\ \E i, j \in 1..2 :
          lastPass.outcomes[i] = "rendered" /\ lastPass.outcomes[j] \in {"threw", "empty"}

\* C21: a pass visits the candidates that were in the collection when it
\* started from the last to the first in document order, each exactly once,
\* also when the rewriting of a visited candidate takes candidates out of
\* the collection or puts new ones into it
C21_VisitOrder ==
    (cin.kind = "collection" /\ cout.stage \in {"visiting", "visited"}) =>
        LET n == Len(cin.inside)
        IN  /\ Len(cout.visited) <= n
            /\ \A j \in 1..Len(cout.visited) : cout.visited[j] = (n + 1) - j
            /\ cout.stage = "visited" => Len(cout.visited) = n
            /\ cout.i <= Len(cout.collection)

\* a finished pass over a candidate with the marker that had a candidate
\* inside it and whose new markup brought another one
C21_Witness ==
    /\ cin.kind = "collection" /\ cout.stage = "visited"
    /\ Len(cin.inside) = MaxElements
    /\ \E k \in 1..MaxElements :
          /\ cin.marked[k] /\ cin.inserts[k] = 1
          /\ \E j \in 1..MaxElements : cin.inside[j] = k /\ cin.marked[j] /\ cin.inserts[j] = 1
    /\ Len(cout.collection) # MaxElements

\* the element carries the marker
carriesMarker(node) == node.innerHTML # <<>> /\ node.innerHTML[1] = stopkey

\* C22: every tick leads to a pass, so that an element that carries the
\* marker and stays in the document is rewritten, to its rendered text or to
\* the fallback text, when the storage answers the next tick, on every page,
\* also on one that has no element with the name of the displayed channel
C22_EventualRewrite ==
    [][ PassStep =>
           \A i \in 1..Len(encryptedmessages) :
               carriesMarker(encryptedmessages[i]) =>
                   /\ Len(encryptedmessages') >= i
                   /\ encryptedmessages'[i].innerHTML # encryptedmessages[i].innerHTML ]_vars

\* C23: an element whose ciphertext was written under the passphrase of the
\* page shows its plaintext once a pass has run under that passphrase, also
\* when an earlier pass met it under another passphrase (here: before the
\* secret was stored)
C23_EventualPlaintext ==
    (lastPass.ran /\ lastPass.key = KeyWith) =>
        \A i \in 1..Len(lastPass.after) : lastPass.after[i].innerHTML = hi

\* the names a pass adds to the class of a container
hintNames == {"encryptedMessageContainer", "containsImage", "widermessage", "evenwidermessage"}

\* C26: whatever passes have run, the class of a container holds each of
\* the four names at most once, also when two elements that carry the marker
\* have the same container
C26_HintsOnce ==
    \A c \in 1..Len(className) :
        \A h \in hintNames :
            Cardinality({k \in 1..Len(className[c]) : className[c][k] = h}) <= 1

\* C24: a keydown takes the listener from armed to idle only if its key is
\* Enter (13) or Control (17); Backspace (8) pressed while armed leaves it
\* armed
C24_LeavingArmed ==
    (lastKey.handled /\ lastKey.armedBefore) =>
        /\ ~lastKey.armedAfter => lastKey.event.keyCode \in {13, 17}
        /\ lastKey.event.keyCode = 8 => lastKey.armedAfter /\ lastKeyWasStopKey

\* the steps of the two paths: a keydown the listener handles, a tick, and
\* the answer of the storage to a tick or to loadEmojis
KeydownStep == lastKey'.n # lastKey.n
TickStep == counter' # counter
CallbackStep == pending # <<>> /\ pending' = Tail(pending)

\* C25, as the code has it: the decrypt pass and the answer to loadEmojis
\* write no textarea, and a tick writes the textareas only when it finds the
\* send flag set (the label of C13); the keydown listener writes no message
\* element and no class of a container.  The listener leaves the emoji map,
\* the stored map and the counter alone, the loop leaves the listener's flag
\* alone; both paths touch the passphrase, the send flag and the textareas
C25_WriteRegions ==
    [][ /\ CallbackStep => textareaarray' = textareaarray
        /\ (TickStep /\ textareaarray' # textareaarray) =>
              /\ send
              /\ \A k \in 1..Len(textareaarray') : textareaarray'[k] = placeholder
        /\ (TickStep \/ CallbackStep) => lastKeyWasStopKey' = lastKeyWasStopKey
        /\ KeydownStep =>
              /\ encryptedmessages' = encryptedmessages
              /\ className' = className
              /\ replacementarr' = replacementarr
              /\ emojidata' = emojidata
              /\ counter' = counter
              /\ passphrase' = passphrase ]_vars

\* C25, its case: the pass has rendered the message, the listener has
\* encrypted the text of the textarea, and a tick has put the label there
C25_Witness ==
    /\ lastPass.ran /\ encryptedmessages[1].innerHTML = hi
    /\ lastKey.encoded
    /\ textareaarray = <<placeholder>>
    /\ ~send

\* C25, as stated: no tick and no pass writes a textarea, and the keydown
\* listener writes no message element
C25_AsStated ==
    [][ /\ (TickStep \/ CallbackStep) => textareaarray' = textareaarray
        /\ KeydownStep =>
              /\ encryptedmessages' = encryptedmessages
              /\ className' = className ]_vars

\* the codes and the pairs of an emoji map
Codes(emojis) == {emojis[i].code : i \in 1..Len(emojis)}
Pairs(emojis) == {emojis[i] : i \in 1..Len(emojis)}

\* C27: whatever ticks, harvests, saves, answers to loadEmojis and saves of
\* another page happen, a code that is in the emoji map of the page stays in
\* it
C27_CodesKept ==
    [][ Codes(replacementarr) \subseteq Codes(replacementarr') ]_vars

\* C28: the emoji map and the stored map change in a tick only if the
\* counter it reaches is a multiple of 1000; such a tick adds the pair of
\* every image whose label starts with ":" and whose code is not known,
\* keeps the pair of every known code as it is, and stores a map that holds
\* every pair of the map of the page
C28_Harvest ==
    [][ TickStep =>
           LET learn == counter' % LearnEvery = 0
               labelled == {i \in 1..Len(allemojis) :
                               allemojis[i].label # <<>> /\ allemojis[i].label[1] = ":"}
           IN  /\ ~learn => replacementarr' = replacementarr /\ emojidata' = emojidata
               /\ learn =>
                     /\ \A i \in labelled :
                           allemojis[i].label \notin Codes(replacementarr) =>
                               [code |-> allemojis[i].label, markup |-> allemojis[i].outerHTML]
                                   \in Pairs(replacementarr')
                     /\ Pairs(replacementarr) \subseteq Pairs(replacementarr')
                     /\ emojidata'.defined
                     /\ Pairs(replacementarr') \subseteq Pairs(emojidata'.map) ]_vars

\* line 548: the words the URL detection takes the text apart into
wordsOf(text) ==
    Split(ReplaceFirst(ReplaceFirst(text, httpsScheme, <<" ">> \o httpsScheme),
                       <<"="," ">> \o httpsScheme, <<"=">> \o httpsScheme), <<" ">>)

\* C29: the emoji substitution replaces nothing inside the markup the URL
\* detection has put in: the anchor and the image or frame of every link of
\* the text are in the shown markup as the URL detection wrote them
C29_OriginalOnly ==
    (/\ cout.stage = "decoded" /\ cin.kind = "text" /\ cin.K1 = cin.K2
     /\ Includes(cin.text, https)) =>
        \A w \in Range(wordsOf(cin.text)) :
            Includes(w, https) => Includes(cout.shown.node.innerHTML, renderWord(w))

\* the word names a video page of one of the two sites and holds no code:
\* no "?v=" or nothing after it, nothing after "/video/"
watchPage == SubstringTo(watchLink(<<>>), Len(watchLink(<<>>)) - 3)
NoEmbedCode(w) ==
    \/ /\ Includes(w, SubstringFrom(watchPage, Len(httpsScheme)))
       /\ SecondPiece(w, <<"?","v","=">>) \in {undefinedText, <<>>}
    \/ /\ Includes(w, SubstringFrom(videoLink(<<>>), Len(httpsScheme)))
       /\ SecondPiece(w, <<".","c","o","m","/","v","i","d","e","o","/">>) = <<>>

\* C30: a word that names a video page of one of the two sites and holds no
\* code is shown as a link with an image, not as a frame, and the words
\* after it are shown as well
C30_NoEmbedWithoutCode ==
    (/\ cout.stage = "decoded" /\ cin.kind = "text" /\ cin.K1 = cin.K2
     /\ \E w \in Range(wordsOf(cin.text)) : NoEmbedCode(w)) =>
        /\ cout.shown.outcome = "rendered"
        /\ \A w \in Range(wordsOf(cin.text)) :
              IF NoEmbedCode(w)
              THEN Includes(cout.shown.node.innerHTML, imageMarkup(w))
              ELSE Includes(cout.shown.node.innerHTML, w)
        /\ ~Includes(cout.shown.node.innerHTML, <<"<","i","f","r","a","m","e">>)

\* C31: the listener arms, sets the send flag and encrypts only on a keydown
\* of the trigger key that is delivered on a textarea of the page; a keydown
\* of the trigger key delivered elsewhere, or on a page without a textarea,
\* changes neither the listener's flag nor the send flag and writes nothing;
\* and the decrypt pass writes no textarea
C31_TriggerContext ==
    [][ /\ (/\ KeydownStep
            /\ lastKey'.event.key = stopkey
            /\ (~lastKey'.event.focus \/ textareaarray = <<>>)) =>
               /\ lastKeyWasStopKey' = lastKeyWasStopKey
               /\ send' = send
               /\ ~lastKey'.encoded
               /\ lastKey'.written = textareaarray
        /\ PassStep => textareaarray' = textareaarray ]_vars

\* C32: for one channel name and one location, two derivations whose pairs
\* of server secret and channel secret differ set different passphrases
C32_DistinctPairs ==
    \A i, j \in 1..Len(derivations) :
        (/\ derivations[i].channelname = derivations[j].channelname
         /\ derivations[i].url = derivations[j].url
         /\ <<derivations[i].serverkey, derivations[i].channelkey>>
               # <<derivations[j].serverkey, derivations[j].channelkey>>) =>
            derivations[i].passphrase # derivations[j].passphrase

\* the step is a click on setKeys
SetKeysStep == lastClick' # lastClick /\ lastClick'.button = "setkeys"

\* C33: a click on setKeys that reports a secret as too short, the server
\* secret or the channel secret, leaves the store as it was and does not
\* show the confirmation; a click that shows the confirmation has written
\* every secret the user gave
C33_AllOrNothing ==
    [][ SetKeysStep =>
           /\ lastClick'.alerts # <<>> => storage' = storage /\ info' # doneText
           /\ (lastClick'.alerts = <<>> /\ info' = doneText) =>
                 /\ OrEmpty(storage', PropertyName(serverurl)) = lastClick'.serverkey
                 /\ lastClick'.channelkey # <<>> =>
                       OrEmpty(storage', PropertyName(channelurl)) = lastClick'.channelkey ]_vars


====
